---------------------------- MODULE Spec2Model ----------------------------
(***************************************************************************)
(* Wallet metadata record (src/wallet/meta/meta.go).                       *)
(*                                                                         *)
(* Representation.                                                         *)
(*   - A Go string is a sequence of one-character strings:                 *)
(*     "sky" is <<"s","k","y">> and "" is <<>>.  A rune outside ASCII is   *)
(*     one element written by its code point, "U+212A".                    *)
(*   - A Meta (map[string]string) is a function whose DOMAIN is the set    *)
(*     of present keys; a map key is a TLA+ string (keys are only          *)
(*     compared).  Meta is a reference type: a variable of type Meta       *)
(*     holds an address into heap.                                         *)
(*   - Go's uint32/uint64/int64 are wider than TLC's integers, so an       *)
(*     unsigned integer is held as its sequence of decimal digits, most    *)
(*     significant first, without leading zeros (0 is <<0>>), and a        *)
(*     signed one as [neg, mag].                                           *)
(***************************************************************************)
EXTENDS Integers, Sequences, FiniteSets, TLC

VARIABLES
    heap,   \* heap[a]: the map stored at address a
    refs,   \* refs[i]: the address held by the i-th variable of type Meta
    call,   \* the last call: [op, recv, args, ret, panic]
    pre,    \* the heap as it was when the last call started
    hist,   \* hist[a]: what has been called on the map at address a (or on
            \* the map it was cloned from): the mutating methods' names, and
            \* the ways a caller has departed from the caller contract
    nops,   \* number of calls made so far
    pc,     \* the SetEncrypted/SetDecrypted call in progress when its writes
            \* are taken one at a time: [op, recv, args, step]
    writes, \* the keys stored so far by that call, in the order stored
    obs,    \* what a second goroutine has read from the record
    cmp     \* the ExchangeStatusComponent and its status subscription

vars == <<heap, refs, call, pre, hist, nops, pc, writes, obs, cmp>>

\* the variables the method calls taken whole do not touch
aux == <<pc, writes, obs, cmp>>

----------------------------------------------------------------------------
(* Bounds *)

MaxOps == 3
MaxRecords == 2
MaxCoinLen == 3
\* emissions of the status observable
MaxEmits == 2

----------------------------------------------------------------------------
(* wallet meta fields *)

MetaVersion == "version"
MetaFilename == "filename"
MetaLabel == "label"
MetaTimestamp == "tm"
MetaType == "type"
MetaCoin == "coin"
MetaEncrypted == "encrypted"
MetaCryptoType == "cryptoType"
MetaSeed == "seed"
MetaLastSeed == "lastSeed"
MetaSecrets == "secrets"
MetaBip44Coin == "bip44Coin"
MetaAccountsHash == "accountsHash"
MetaSeedPassphrase == "seedPassphrase"
MetaXPub == "xpub"

Keys ==
    { MetaVersion, MetaFilename, MetaLabel, MetaTimestamp, MetaType, MetaCoin,
      MetaEncrypted, MetaCryptoType, MetaSeed, MetaLastSeed, MetaSecrets,
      MetaBip44Coin, MetaAccountsHash, MetaSeedPassphrase, MetaXPub }

CoinTypeSkycoin == <<"s","k","y","c","o","i","n">>
CoinTypeBitcoin == <<"b","i","t","c","o","i","n">>

EmptyString == <<>>

----------------------------------------------------------------------------
(* Go map primitives *)

\* make(Meta)
EmptyMeta == [k \in {} |-> EmptyString]

\* v := m[k]: the zero value "" when k is absent
Get(m, k) == IF k \in DOMAIN m THEN m[k] ELSE EmptyString

\* _, ok := m[k]
Has(m, k) == k \in DOMAIN m

\* m[k] = v
Put(m, k, v) == [x \in (DOMAIN m) \cup {k} |-> IF x = k THEN v ELSE m[x]]

----------------------------------------------------------------------------
(* Unsigned integers as decimal digit sequences *)

Zero == <<0>>

\* u / 10 and u % 10
Quo10(u) == IF Len(u) = 1 THEN Zero ELSE SubSeq(u, 1, Len(u) - 1)
Rem10(u) == u[Len(u)]

\* n*10 + d
MulAdd10(n, d) == IF n = Zero THEN <<d>> ELSE Append(n, d)

\* a < b
Less(a, b) ==
    \/ Len(a) < Len(b)
    \/ /\ Len(a) = Len(b)
       /\ \E i \in 1..Len(a) :
            /\ a[i] < b[i]
            /\ \A j \in 1..(i - 1) : a[j] = b[j]

MaxUint32 == <<4,2,9,4,9,6,7,2,9,5>>
MaxUint64 == <<1,8,4,4,6,7,4,4,0,7,3,7,0,9,5,5,1,6,1,5>>
MaxInt64 == <<9,2,2,3,3,7,2,0,3,6,8,5,4,7,7,5,8,0,7>>
\* 1 << 63
Cutoff64 == <<9,2,2,3,3,7,2,0,3,6,8,5,4,7,7,5,8,0,8>>

DigitChars == <<"0","1","2","3","4","5","6","7","8","9">>

IsDigitChar(c) == \E d \in 0..9 : DigitChars[d + 1] = c
DigitOf(c) == CHOOSE d \in 0..9 : DigitChars[d + 1] = c

----------------------------------------------------------------------------
(* strconv *)

ErrNone == "nil"
ErrSyntax == "invalid syntax"
ErrRange == "value out of range"

\* strconv.FormatBool
FormatBool(b) == IF b THEN <<"t","r","u","e">> ELSE <<"f","a","l","s","e">>

\* strconv.ParseBool
ParseBool(str) ==
    IF str \in { <<"1">>, <<"t">>, <<"T">>, <<"T","R","U","E">>,
                 <<"t","r","u","e">>, <<"T","r","u","e">> }
    THEN [val |-> TRUE, err |-> ErrNone]
    ELSE IF str \in { <<"0">>, <<"f">>, <<"F">>, <<"F","A","L","S","E">>,
                      <<"f","a","l","s","e">>, <<"F","a","l","s","e">> }
    THEN [val |-> FALSE, err |-> ErrNone]
    ELSE [val |-> FALSE, err |-> ErrSyntax]

\* strconv.FormatUint(u, 10)
RECURSIVE FormatUint(_)
FormatUint(u) ==
    IF Quo10(u) = Zero
    THEN <<DigitChars[Rem10(u) + 1]>>
    ELSE FormatUint(Quo10(u)) \o <<DigitChars[Rem10(u) + 1]>>

\* The digit loop of strconv.ParseUint(s, 10, bitSize): acc is the result so
\* far; maxVal is 1<<bitSize - 1.
RECURSIVE ParseDigits(_, _, _)
ParseDigits(s, acc, maxVal) ==
    IF s = <<>> THEN [val |-> acc, err |-> ErrNone]
    ELSE IF ~IsDigitChar(Head(s)) THEN [val |-> Zero, err |-> ErrSyntax]
    ELSE LET n1 == MulAdd10(acc, DigitOf(Head(s)))
         IN  IF Less(maxVal, n1)
             THEN [val |-> maxVal, err |-> ErrRange]
             ELSE ParseDigits(Tail(s), n1, maxVal)

\* strconv.ParseUint(s, 10, bitSize)
ParseUint(s, maxVal) ==
    IF s = <<>> THEN [val |-> Zero, err |-> ErrSyntax]
    ELSE ParseDigits(s, Zero, maxVal)

\* int64 values
Int64(neg, mag) == [neg |-> neg, mag |-> mag]
ZeroInt64 == Int64(FALSE, Zero)

\* strconv.FormatInt(t, 10)
FormatInt(t) == IF t.neg THEN <<"-">> \o FormatUint(t.mag) ELSE FormatUint(t.mag)

\* strconv.ParseInt(s, 10, 64)
ParseInt(s) ==
    IF s = <<>> THEN [val |-> ZeroInt64, err |-> ErrSyntax]
    ELSE LET neg == Head(s) = "-"
             s1 == IF Head(s) \in {"+", "-"} THEN Tail(s) ELSE s
             un == ParseUint(s1, MaxUint64)
         IN  IF un.err # ErrNone /\ un.err # ErrRange
             THEN [val |-> ZeroInt64, err |-> un.err]
             ELSE IF ~neg /\ ~Less(un.val, Cutoff64)
             THEN [val |-> Int64(FALSE, MaxInt64), err |-> ErrRange]
             ELSE IF neg /\ Less(Cutoff64, un.val)
             THEN [val |-> Int64(TRUE, Cutoff64), err |-> ErrRange]
             ELSE [val |-> Int64(neg /\ un.val # Zero, un.val), err |-> ErrNone]

----------------------------------------------------------------------------
(* strings *)

UpperChars == <<"A","B","C","D","E","F","G","H","I","J","K","L","M",
                "N","O","P","Q","R","S","T","U","V","W","X","Y","Z">>
LowerChars == <<"a","b","c","d","e","f","g","h","i","j","k","l","m",
                "n","o","p","q","r","s","t","u","v","w","x","y","z">>

\* Runes outside ASCII are written by code point: "U+212A" is KELVIN SIGN,
\* "U+0130" capital I with dot above, "U+00C9" and "U+00E9" capital and small
\* e with acute, "U+017F" long s; "0xFF" is a byte that is no UTF-8 encoding
\* and "U+FFFD" the replacement character.  RuneTo[i] is what strings.ToLower
\* writes for RuneFrom[i]: unicode.ToLower of the rune, and the replacement
\* character for an invalid byte.
RuneFrom == <<"U+00C9", "U+0130", "U+212A", "0xFF">>
RuneTo == <<"U+00E9", "i", "k", "U+FFFD">>

\* one rune of strings.ToLower; every other rune of the model (digits,
\* punctuation, lower-case letters, "U+00E9", "U+017F") is its own lower case
ToLowerChar(c) ==
    IF \E i \in 1..26 : UpperChars[i] = c
    THEN LowerChars[CHOOSE i \in 1..26 : UpperChars[i] = c]
    ELSE IF \E i \in 1..Len(RuneFrom) : RuneFrom[i] = c
    THEN RuneTo[CHOOSE i \in 1..Len(RuneFrom) : RuneFrom[i] = c]
    ELSE c

\* strings.ToLower
ToLower(s) == [i \in 1..Len(s) |-> ToLowerChar(s[i])]

----------------------------------------------------------------------------
(* Meta methods, as functions from the map (and arguments) to the map after *)
(* the call, or to the value returned.                                      *)

\* func (m Meta) Clone() Meta: a fresh map holding every pair of m
Clone(m) == [k \in DOMAIN m |-> m[k]]

SetVersion(m, v) == Put(m, MetaVersion, v)
SetFilename(m, fn) == Put(m, MetaFilename, fn)
SetLabel(m, label) == Put(m, MetaLabel, label)
\* SetLastSeed storing under the secrets key
SetLastSeedIntoSecrets(m, lseed) == Put(m, MetaSecrets, lseed)
SetLastSeed(m, lseed) == Put(m, MetaLastSeed, lseed)
SetSeed(m, seed) == Put(m, MetaSeed, seed)
SetSeedPassphrase(m, p) == Put(m, MetaSeedPassphrase, p)
\* SetCoin storing under the type key
SetCoinIntoType(m, ct) == Put(m, MetaType, ct)
SetCoin(m, ct) == Put(m, MetaCoin, ct)
SetXPub(m, xpub) == Put(m, MetaXPub, xpub)
SetBip44Coin(m, ct) == Put(m, MetaBip44Coin, FormatUint(ct))
\* SetTimestamp formatting the magnitude only
SetTimestampUnsigned(m, t) == Put(m, MetaTimestamp, FormatUint(t.mag))
SetTimestamp(m, t) == Put(m, MetaTimestamp, FormatInt(t))

\* setIsEncrypted ignoring its argument
setIsEncryptedYesNo(m, encrypt) ==
    Put(m, MetaEncrypted, IF encrypt THEN <<"y","e","s">> ELSE <<"n","o">>)
setIsEncryptedAlwaysTrue(m, encrypt) == Put(m, MetaEncrypted, FormatBool(TRUE))
setIsEncrypted(m, encrypt) == Put(m, MetaEncrypted, FormatBool(encrypt))
setCryptoType(m, tp) == Put(m, MetaCryptoType, tp)
\* setSecrets storing under the seed key
setSecretsIntoSeed(m, s) == Put(m, MetaSeed, s)
setSecrets(m, s) == Put(m, MetaSecrets, s)

\* EraseSeeds leaving the seed passphrase in place
EraseSeedsKeepPassphrase(m) == SetLastSeed(SetSeed(m, EmptyString), EmptyString)

\* EraseSeeds wiping the encrypted secrets as well
EraseSeedsAndSecrets(m) ==
    setSecrets(SetSeedPassphrase(SetLastSeed(SetSeed(m, EmptyString), EmptyString), EmptyString), EmptyString)

\* EraseSeeds wipes the seed and last seed
EraseSeeds(m) == SetSeedPassphrase(SetLastSeed(SetSeed(m, EmptyString), EmptyString), EmptyString)

\* SetEncrypted erasing the plaintext seeds itself
SetEncryptedErasing(m, cryptoType, encryptedSecrets) ==
    setIsEncrypted(setSecrets(setCryptoType(EraseSeeds(m), cryptoType), encryptedSecrets), TRUE)

\* SetEncrypted with its two arguments exchanged
SetEncryptedSwapped(m, cryptoType, encryptedSecrets) ==
    setIsEncrypted(setSecrets(setCryptoType(m, encryptedSecrets), cryptoType), TRUE)

\* SetEncrypted sets encryption fields
SetEncrypted(m, cryptoType, encryptedSecrets) ==
    setIsEncrypted(setSecrets(setCryptoType(m, cryptoType), encryptedSecrets), TRUE)

\* SetDecrypted clearing the flag only
SetDecryptedFlagOnly(m) == setIsEncrypted(m, FALSE)

\* SetDecrypted unsets encryption fields
SetDecrypted(m) ==
    setCryptoType(setSecrets(setIsEncrypted(m, FALSE), EmptyString), EmptyString)

Find(m, k) == Get(m, k)
Type(m) == Get(m, MetaType)
Version(m) == Get(m, MetaVersion)
Filename(m) == Get(m, MetaFilename)
Label(m) == Get(m, MetaLabel)
LastSeed(m) == Get(m, MetaLastSeed)
Seed(m) == Get(m, MetaSeed)
SeedPassphrase(m) == Get(m, MetaSeedPassphrase)
Coin(m) == Get(m, MetaCoin)
CryptoType(m) == Get(m, MetaCryptoType)
Secrets(m) == Get(m, MetaSecrets)
XPub(m) == Get(m, MetaXPub)

\* Bip44Coin taking the value 0 for absence
Bip44CoinZeroAbsent(m) ==
    IF ~Has(m, MetaBip44Coin)
    THEN [val |-> Zero, ok |-> FALSE, panic |-> FALSE]
    ELSE LET x == ParseUint(m[MetaBip44Coin], MaxUint32)
         IN  IF x.err # ErrNone
             THEN [val |-> Zero, ok |-> FALSE, panic |-> TRUE]
             ELSE [val |-> x.val, ok |-> x.val # Zero, panic |-> FALSE]

\* Bip44Coin: [val, ok], or a panic when the stored value does not parse
Bip44Coin(m) ==
    IF ~Has(m, MetaBip44Coin)
    THEN [val |-> Zero, ok |-> FALSE, panic |-> FALSE]
    ELSE LET x == ParseUint(m[MetaBip44Coin], MaxUint32)
         IN  IF x.err # ErrNone
             THEN [val |-> Zero, ok |-> FALSE, panic |-> TRUE]
             ELSE [val |-> x.val, ok |-> TRUE, panic |-> FALSE]

\* IsEncrypted parsing the value without looking whether the key is present
IsEncryptedNoAbsentCheck(m) ==
    LET b == ParseBool(Get(m, MetaEncrypted))
    IN  IF b.err # ErrNone
        THEN [val |-> FALSE, panic |-> TRUE]
        ELSE [val |-> b.val, panic |-> FALSE]

\* IsEncrypted returning false when the value does not parse
IsEncryptedDefaultFalse(m) ==
    IF ~Has(m, MetaEncrypted)
    THEN [val |-> FALSE, panic |-> FALSE]
    ELSE [val |-> ParseBool(m[MetaEncrypted]).val, panic |-> FALSE]

\* IsEncrypted: [val], or a panic when the stored value does not parse
IsEncrypted(m) ==
    IF ~Has(m, MetaEncrypted)
    THEN [val |-> FALSE, panic |-> FALSE]
    ELSE LET b == ParseBool(m[MetaEncrypted])
         IN  IF b.err # ErrNone
             THEN [val |-> FALSE, panic |-> TRUE]
             ELSE [val |-> b.val, panic |-> FALSE]

\* Timestamp: the parse error is ignored
Timestamp(m) == ParseInt(Get(m, MetaTimestamp)).val

ErrInvalidCoinType == "invalid coin type"

\* ResolveCoinType normalizes a coin type string to a CoinType constant
ResolveCoinType(s) ==
    LET l == ToLower(s)
    IN  IF l \in { <<"s","k","y">>, <<"s","k","y","c","o","i","n">> }
        THEN [val |-> CoinTypeSkycoin, err |-> ErrNone]
        ELSE IF l \in { <<"b","t","c">>, <<"b","i","t","c","o","i","n">> }
        THEN [val |-> CoinTypeBitcoin, err |-> ErrNone]
        ELSE [val |-> EmptyString, err |-> ErrInvalidCoinType]

----------------------------------------------------------------------------
(* Inputs *)

\* string arguments of the setters
Strings == { EmptyString, <<"a">> }

\* crypto.CryptoType arguments and encrypted blobs of SetEncrypted
CryptoTypes == { EmptyString, <<"x">> }
Blobs == { EmptyString, <<"b">> }

\* CoinType arguments of SetCoin (CoinType is a string type; any string converts)
CoinTypes == { CoinTypeSkycoin, CoinTypeBitcoin, <<"e","t","h">> }

\* bip44.CoinType (uint32) arguments of SetBip44Coin
Bip44Coins == { Zero, <<8,0,0,0>>, MaxUint32 }

\* int64 arguments of SetTimestamp
Timestamps == { ZeroInt64, Int64(FALSE, <<1,5>>), Int64(TRUE, Cutoff64) }

----------------------------------------------------------------------------
(* State machine *)

Handles == 1..Len(refs)

\* Departures from the caller contract the specification states for the
\* encryption fields; the methods themselves accept all of them.
EmptyCryptoArg == "SetEncrypted with an empty algorithm or blob"
BothCryptoArgsEmpty == "SetEncrypted with an empty algorithm and an empty blob"
EncryptUnerased == "SetEncrypted on a record holding plaintext seeds"
PlaintextWhileEncrypted == "plaintext seed written to an encrypted record"
UnknownCoinArg == "SetCoin with a value that is no enumerated CoinType"

HoldsPlaintext(m) ==
    \/ Get(m, MetaSeed) # EmptyString
    \/ Get(m, MetaLastSeed) # EmptyString
    \/ Get(m, MetaSeedPassphrase) # EmptyString

Departures(m, op, args) ==
    (IF op = "SetEncrypted" /\ (args[1] = EmptyString \/ args[2] = EmptyString)
     THEN {EmptyCryptoArg} ELSE {})
    \cup
    (IF op = "SetEncrypted" /\ args[1] = EmptyString /\ args[2] = EmptyString
     THEN {BothCryptoArgsEmpty} ELSE {})
    \cup
    (IF op = "SetEncrypted" /\ HoldsPlaintext(m)
     THEN {EncryptUnerased} ELSE {})
    \cup
    (IF /\ op \in {"SetSeed", "SetLastSeed", "SetSeedPassphrase"}
        /\ args[1] # EmptyString
        /\ IsEncrypted(m).val
     THEN {PlaintextWhileEncrypted} ELSE {})
    \cup
    (IF op = "SetCoin" /\ args[1] \notin {CoinTypeSkycoin, CoinTypeBitcoin}
     THEN {UnknownCoinArg} ELSE {})

\* the map the i-th variable refers to
Rec(i) == heap[refs[i]]

\* the same map when the last call started (the variable must have existed)
PreRec(i) == pre[refs[i]]

\* no compound call in progress
Idle == [op |-> "idle", recv |-> 0, args |-> <<>>, step |-> 0]

\* the second goroutine has read nothing: seen is the set of methods it has
\* called, atOnce whether it made the three calls with no write in between,
\* fatal whether the runtime stopped the program on a read that met a write
NotRead ==
    [seen |-> {}, enc |-> [val |-> FALSE, panic |-> FALSE], ct |-> EmptyString,
     secrets |-> EmptyString, atOnce |-> FALSE, fatal |-> FALSE]

\* no component constructed
NoComponent == [phase |-> "none"]

Init ==
    /\ heap = <<EmptyMeta>>
    /\ refs = <<1>>
    /\ call = [op |-> "make", recv |-> 1, args |-> <<>>, ret |-> <<>>, panic |-> FALSE]
    /\ pre = <<EmptyMeta>>
    /\ hist = <<{}>>
    /\ nops = 0
    /\ pc = Idle
    /\ writes = <<>>
    /\ obs = NotRead
    /\ cmp = NoComponent

\* a method call on the i-th variable that leaves map m2 at its address
Write(i, op, args, m2) ==
    /\ nops < MaxOps
    /\ heap' = [heap EXCEPT ![refs[i]] = m2]
    /\ refs' = refs
    /\ call' = [op |-> op, recv |-> i, args |-> args, ret |-> <<>>, panic |-> FALSE]
    /\ pre' = heap
    /\ hist' = [hist EXCEPT ![refs[i]] = @ \cup {op} \cup Departures(Rec(i), op, args)]
    /\ nops' = nops + 1
    /\ UNCHANGED aux

\* a method call on the i-th variable that only returns a value
Read(i, op, args, ret, panic) ==
    /\ nops < MaxOps
    /\ UNCHANGED <<heap, refs>>
    /\ call' = [op |-> op, recv |-> i, args |-> args, ret |-> ret, panic |-> panic]
    /\ pre' = heap
    /\ hist' = hist
    /\ nops' = nops + 1
    /\ UNCHANGED aux

\* Clone returning the receiver's own map (mm := m)
CloneOpAlias(i) ==
    /\ nops < MaxOps
    /\ Len(refs) < MaxRecords
    /\ heap' = heap
    /\ refs' = Append(refs, refs[i])
    /\ call' = [op |-> "Clone", recv |-> i, args |-> <<>>,
                ret |-> <<Len(refs) + 1>>, panic |-> FALSE]
    /\ pre' = heap
    /\ hist' = hist
    /\ nops' = nops + 1
    /\ UNCHANGED aux

CloneOp(i) ==
    /\ nops < MaxOps
    /\ Len(refs) < MaxRecords
    /\ heap' = Append(heap, Clone(Rec(i)))
    /\ refs' = Append(refs, Len(heap) + 1)
    /\ call' = [op |-> "Clone", recv |-> i, args |-> <<>>,
                ret |-> <<Len(refs) + 1>>, panic |-> FALSE]
    /\ pre' = heap
    /\ hist' = Append(hist, hist[refs[i]])
    /\ nops' = nops + 1
    /\ UNCHANGED aux

EraseSeedsOp(i) == Write(i, "EraseSeeds", <<>>, EraseSeeds(Rec(i)))
SetVersionOp(i, v) == Write(i, "SetVersion", <<v>>, SetVersion(Rec(i), v))
SetFilenameOp(i, v) == Write(i, "SetFilename", <<v>>, SetFilename(Rec(i), v))
SetLabelOp(i, v) == Write(i, "SetLabel", <<v>>, SetLabel(Rec(i), v))
SetLastSeedOp(i, v) == Write(i, "SetLastSeed", <<v>>, SetLastSeed(Rec(i), v))
SetSeedOp(i, v) == Write(i, "SetSeed", <<v>>, SetSeed(Rec(i), v))
SetSeedPassphraseOp(i, v) == Write(i, "SetSeedPassphrase", <<v>>, SetSeedPassphrase(Rec(i), v))
SetCoinOp(i, ct) == Write(i, "SetCoin", <<ct>>, SetCoin(Rec(i), ct))
SetBip44CoinOp(i, ct) == Write(i, "SetBip44Coin", <<ct>>, SetBip44Coin(Rec(i), ct))
SetTimestampOp(i, t) == Write(i, "SetTimestamp", <<t>>, SetTimestamp(Rec(i), t))
SetXPubOp(i, v) == Write(i, "SetXPub", <<v>>, SetXPub(Rec(i), v))
SetEncryptedOp(i, tp, s) == Write(i, "SetEncrypted", <<tp, s>>, SetEncrypted(Rec(i), tp, s))
SetDecryptedOp(i) == Write(i, "SetDecrypted", <<>>, SetDecrypted(Rec(i)))

FindOp(i, k) == Read(i, "Find", <<k>>, <<Find(Rec(i), k)>>, FALSE)
TypeOp(i) == Read(i, "Type", <<>>, <<Type(Rec(i))>>, FALSE)
VersionOp(i) == Read(i, "Version", <<>>, <<Version(Rec(i))>>, FALSE)
FilenameOp(i) == Read(i, "Filename", <<>>, <<Filename(Rec(i))>>, FALSE)
LabelOp(i) == Read(i, "Label", <<>>, <<Label(Rec(i))>>, FALSE)
LastSeedOp(i) == Read(i, "LastSeed", <<>>, <<LastSeed(Rec(i))>>, FALSE)
SeedOp(i) == Read(i, "Seed", <<>>, <<Seed(Rec(i))>>, FALSE)
SeedPassphraseOp(i) == Read(i, "SeedPassphrase", <<>>, <<SeedPassphrase(Rec(i))>>, FALSE)
CoinOp(i) == Read(i, "Coin", <<>>, <<Coin(Rec(i))>>, FALSE)
CryptoTypeOp(i) == Read(i, "CryptoType", <<>>, <<CryptoType(Rec(i))>>, FALSE)
SecretsOp(i) == Read(i, "Secrets", <<>>, <<Secrets(Rec(i))>>, FALSE)
XPubOp(i) == Read(i, "XPub", <<>>, <<XPub(Rec(i))>>, FALSE)
TimestampOp(i) == Read(i, "Timestamp", <<>>, <<Timestamp(Rec(i))>>, FALSE)

Bip44CoinOp(i) ==
    LET r == Bip44Coin(Rec(i))
    IN  Read(i, "Bip44Coin", <<>>, IF r.panic THEN <<>> ELSE <<r.val, r.ok>>, r.panic)

IsEncryptedOp(i) ==
    LET r == IsEncrypted(Rec(i))
    IN  Read(i, "IsEncrypted", <<>>, IF r.panic THEN <<>> ELSE <<r.val>>, r.panic)

Next ==
    \E i \in Handles :
        \/ CloneOp(i)
        \/ EraseSeedsOp(i)
        \/ \E v \in Strings : SetVersionOp(i, v)
        \/ \E v \in Strings : SetFilenameOp(i, v)
        \/ \E v \in Strings : SetLabelOp(i, v)
        \/ \E v \in Strings : SetLastSeedOp(i, v)
        \/ \E v \in Strings : SetSeedOp(i, v)
        \/ \E v \in Strings : SetSeedPassphraseOp(i, v)
        \/ \E ct \in CoinTypes : SetCoinOp(i, ct)
        \/ \E ct \in Bip44Coins : SetBip44CoinOp(i, ct)
        \/ \E t \in Timestamps : SetTimestampOp(i, t)
        \/ \E v \in Strings : SetXPubOp(i, v)
        \/ \E tp \in CryptoTypes, s \in Blobs : SetEncryptedOp(i, tp, s)
        \/ SetDecryptedOp(i)
        \/ \E k \in Keys : FindOp(i, k)
        \/ TypeOp(i)
        \/ VersionOp(i)
        \/ FilenameOp(i)
        \/ LabelOp(i)
        \/ LastSeedOp(i)
        \/ SeedOp(i)
        \/ SeedPassphraseOp(i)
        \/ CoinOp(i)
        \/ Bip44CoinOp(i)
        \/ IsEncryptedOp(i)
        \/ CryptoTypeOp(i)
        \/ SecretsOp(i)
        \/ TimestampOp(i)
        \/ XPubOp(i)

Spec == Init /\ [][Next]_vars

----------------------------------------------------------------------------
(* Records whose map is also written directly.  Meta is a map type: a loader *)
(* or any caller can store a string under a key without the typed setters.  *)

RawKeys == {MetaEncrypted, MetaBip44Coin, MetaTimestamp}

RawValues ==
    { EmptyString,
      <<"t","r","u","e">>, <<"T","R","U","E">>, <<"y","e","s">>, <<"1">>, <<"0","7">>,
      <<"-","1">>, <<"+","5">>, <<"1","2","x">>,
      <<"4","2","9","4","9","6","7","2","9","5">>,
      <<"4","2","9","4","9","6","7","2","9","6">>,
      <<"9","2","2","3","3","7","2","0","3","6","8","5","4","7","7","5","8","0","7">>,
      <<"9","2","2","3","3","7","2","0","3","6","8","5","4","7","7","5","8","0","8">>,
      <<"-","9","2","2","3","3","7","2","0","3","6","8","5","4","7","7","5","8","0","9">> }

\* m[k] = v, written by the caller
RawWriteOp(i, k, v) == Write(i, "m[k]=v", <<k, v>>, Put(Rec(i), k, v))

NextRaw ==
    \E i \in Handles :
        \/ \E k \in RawKeys, v \in RawValues : RawWriteOp(i, k, v)
        \/ CloneOp(i)
        \/ \E ct \in Bip44Coins : SetBip44CoinOp(i, ct)
        \/ \E t \in Timestamps : SetTimestampOp(i, t)
        \/ \E tp \in CryptoTypes, s \in Blobs : SetEncryptedOp(i, tp, s)
        \/ SetDecryptedOp(i)
        \/ Bip44CoinOp(i)
        \/ IsEncryptedOp(i)
        \/ TimestampOp(i)

SpecRaw == Init /\ [][NextRaw]_vars

----------------------------------------------------------------------------
(* SetEncrypted and SetDecrypted taken one statement at a time, with a      *)
(* second goroutine reading the same record without synchronization.        *)

\* SetEncrypted with the flag set first
SetEncryptedBodyFlagFirst(cryptoType, encryptedSecrets) ==
    << [fn |-> "setIsEncrypted", arg |-> TRUE],
       [fn |-> "setCryptoType", arg |-> cryptoType],
       [fn |-> "setSecrets", arg |-> encryptedSecrets] >>

\* the statements of SetEncrypted, in program order
SetEncryptedBody(cryptoType, encryptedSecrets) ==
    << [fn |-> "setCryptoType", arg |-> cryptoType],
       [fn |-> "setSecrets", arg |-> encryptedSecrets],
       [fn |-> "setIsEncrypted", arg |-> TRUE] >>

\* SetDecrypted with the flag cleared last
SetDecryptedBodyFlagLast ==
    << [fn |-> "setSecrets", arg |-> EmptyString],
       [fn |-> "setCryptoType", arg |-> EmptyString],
       [fn |-> "setIsEncrypted", arg |-> FALSE] >>

\* the statements of SetDecrypted, in program order
SetDecryptedBody ==
    << [fn |-> "setIsEncrypted", arg |-> FALSE],
       [fn |-> "setSecrets", arg |-> EmptyString],
       [fn |-> "setCryptoType", arg |-> EmptyString] >>

\* the statements of the call in progress
Body(p) ==
    IF p.op = "SetEncrypted" THEN SetEncryptedBody(p.args[1], p.args[2])
    ELSE SetDecryptedBody

\* the map after one statement
Exec(m, st) ==
    CASE st.fn = "setCryptoType" -> setCryptoType(m, st.arg)
      [] st.fn = "setSecrets" -> setSecrets(m, st.arg)
      [] st.fn = "setIsEncrypted" -> setIsEncrypted(m, st.arg)

\* the key a statement stores under
StoredKey(st) ==
    CASE st.fn = "setCryptoType" -> MetaCryptoType
      [] st.fn = "setSecrets" -> MetaSecrets
      [] st.fn = "setIsEncrypted" -> MetaEncrypted

InProgress == pc.op # "idle"

BeginSetEncrypted(i, tp, s) ==
    /\ ~InProgress /\ ~obs.fatal
    /\ nops < MaxOps
    /\ pc' = [op |-> "SetEncrypted", recv |-> i, args |-> <<tp, s>>, step |-> 1]
    /\ writes' = <<>>
    /\ obs' = NotRead
    /\ pre' = heap
    /\ UNCHANGED <<heap, refs, call, hist, nops, cmp>>

BeginSetDecrypted(i) ==
    /\ ~InProgress /\ ~obs.fatal
    /\ nops < MaxOps
    /\ pc' = [op |-> "SetDecrypted", recv |-> i, args |-> <<>>, step |-> 1]
    /\ writes' = <<>>
    /\ obs' = NotRead
    /\ pre' = heap
    /\ UNCHANGED <<heap, refs, call, hist, nops, cmp>>

\* the next statement of the call in progress
StepWrite ==
    /\ InProgress /\ ~obs.fatal
    /\ pc.step <= Len(Body(pc))
    /\ LET st == Body(pc)[pc.step]
           m2 == Exec(Rec(pc.recv), st)
       IN  /\ heap' = [heap EXCEPT ![refs[pc.recv]] = m2]
           /\ writes' = Append(writes, <<StoredKey(st), Get(m2, StoredKey(st))>>)
    /\ pc' = [pc EXCEPT !.step = @ + 1]
    /\ obs' = [obs EXCEPT !.atOnce = @ /\ obs.seen = {"IsEncrypted", "CryptoType", "Secrets"}]
    /\ UNCHANGED <<refs, call, pre, hist, nops, cmp>>

\* the call in progress returns
Return ==
    /\ InProgress /\ ~obs.fatal
    /\ pc.step > Len(Body(pc))
    /\ call' = [op |-> pc.op, recv |-> pc.recv, args |-> pc.args, ret |-> <<>>, panic |-> FALSE]
    /\ hist' = [hist EXCEPT ![refs[pc.recv]] =
                    @ \cup {pc.op} \cup Departures(PreRec(pc.recv), pc.op, pc.args)]
    /\ nops' = nops + 1
    /\ pc' = Idle
    /\ UNCHANGED <<heap, refs, pre, writes, obs, cmp>>

\* The second goroutine calls IsEncrypted(), CryptoType() or Secrets() on the
\* record of the call in progress, each at most once per call, in any order.
ObsIsEncrypted ==
    /\ InProgress /\ ~obs.fatal
    /\ "IsEncrypted" \notin obs.seen
    /\ obs' = [obs EXCEPT !.seen = @ \cup {"IsEncrypted"}, !.enc = IsEncrypted(Rec(pc.recv)),
                           !.atOnce = (obs.seen = {} \/ obs.atOnce)]
    /\ UNCHANGED <<heap, refs, call, pre, hist, nops, pc, writes, cmp>>

ObsCryptoType ==
    /\ InProgress /\ ~obs.fatal
    /\ "CryptoType" \notin obs.seen
    /\ obs' = [obs EXCEPT !.seen = @ \cup {"CryptoType"}, !.ct = CryptoType(Rec(pc.recv)),
                           !.atOnce = (obs.seen = {} \/ obs.atOnce)]
    /\ UNCHANGED <<heap, refs, call, pre, hist, nops, pc, writes, cmp>>

ObsSecrets ==
    /\ InProgress /\ ~obs.fatal
    /\ "Secrets" \notin obs.seen
    /\ obs' = [obs EXCEPT !.seen = @ \cup {"Secrets"}, !.secrets = Secrets(Rec(pc.recv)),
                           !.atOnce = (obs.seen = {} \/ obs.atOnce)]
    /\ UNCHANGED <<heap, refs, call, pre, hist, nops, pc, writes, cmp>>

\* A read that overlaps a statement's map store is a data race; the Go
\* runtime may stop the program ("concurrent map read and map write").
ObsFatal ==
    /\ InProgress /\ ~obs.fatal
    /\ pc.step <= Len(Body(pc))
    /\ obs.seen # {"IsEncrypted", "CryptoType", "Secrets"}
    /\ obs' = [obs EXCEPT !.fatal = TRUE]
    /\ UNCHANGED <<heap, refs, call, pre, hist, nops, pc, writes, cmp>>

NextSteps ==
    \/ \E i \in Handles, tp \in CryptoTypes, s \in Blobs : BeginSetEncrypted(i, tp, s)
    \/ \E i \in Handles : BeginSetDecrypted(i)
    \/ StepWrite
    \/ Return
    \/ ObsIsEncrypted
    \/ ObsCryptoType
    \/ ObsSecrets
    \/ ObsFatal

SpecSteps == Init /\ [][NextSteps]_vars

----------------------------------------------------------------------------
(* ResolveCoinType, a free function, applied to bounded inputs *)

ToUpperChar(c) ==
    IF \E i \in 1..26 : LowerChars[i] = c
    THEN UpperChars[CHOOSE i \in 1..26 : LowerChars[i] = c]
    ELSE c

\* every way of capitalising the letters of w
CaseVariants(w) ==
    { [i \in 1..Len(w) |-> IF i \in S THEN ToUpperChar(w[i]) ELSE w[i]] :
        S \in SUBSET (1..Len(w)) }

CoinAlphabet == {"s", "k", "y", "S", "b", "t", "c", "e", "h", " ", "U+212A", "U+017F"}

ShortStrings == UNION { [1..n -> CoinAlphabet] : n \in 0..MaxCoinLen }

CoinInputs ==
    CaseVariants(<<"s","k","y">>) \cup CaseVariants(<<"s","k","y","c","o","i","n">>)
    \cup CaseVariants(<<"b","t","c">>) \cup CaseVariants(<<"b","i","t","c","o","i","n">>)
    \cup ShortStrings
    \cup { <<"s","k","y","c">>, <<"s","k","y","c","o","i">>, <<"s","k","y","c","o","i","n","s">>,
           <<"b","i","t","c","o","i","n"," ">>, <<" ","b","t","c">>, <<"s","k","y","b","t","c">>,
           <<"e","t","h","e","r","e","u","m">>, <<"S","K","Y","_","C","O","I","N">>,
           <<"b","U+0130","t","c","o","U+0130","n">>, <<"B","U+0130","T","C","O","U+0130","N">>,
           <<"S","U+212A","Y","C","O","I","N">>, <<"U+017F","k","y","c","o","i","n">>,
           <<"U+00C9","t","h">>, <<"U+00E9","t","h">>, <<"s","k","y","0xFF">>, <<"0xFF">> }

ResolveCoinTypeOp(s) ==
    LET r == ResolveCoinType(s)
    IN  /\ nops = 0
        /\ call' = [op |-> "ResolveCoinType", recv |-> 0, args |-> <<s>>,
                    ret |-> <<r.val, r.err>>, panic |-> FALSE]
        /\ nops' = 1
        /\ UNCHANGED <<heap, refs, pre, hist>>
        /\ UNCHANGED aux

NextResolve == \E s \in CoinInputs : ResolveCoinTypeOp(s)

SpecResolve == Init /\ [][NextResolve]_vars

----------------------------------------------------------------------------
(* ExchangeStatusComponent: ngOnInit subscribes to the order's status and  *)
(* the callback runs once per emission, during the subscribe call or later. *)

statuses ==
    << "user_waiting", "market_waiting_confirmations", "market_confirmed",
       "market_exchanged", "market_withdraw_waiting", "complete", "error" >>

Amounts == {1, 2}

\* the orders the status service can emit
Orders == [status : {statuses[i] : i \in 1..Len(statuses)}, fromAmount : Amounts]

\* ['complete', 'error'].indexOf(order.status) !== -1
IsFinal(order) == order.status \in {"complete", "error"}

\* The component after construction with its order input.  subscription is the
\* field this.subscription, subscriber the state of the subscriber behind it;
\* fromAmount is ngOnInit's constant; error records a TypeError raised by the
\* callback; first is the order and lastOrder left by the first final emission.
NewComponent(order) ==
    [phase |-> "constructed", order |-> order, fromAmount |-> order.fromAmount,
     lastOrder |-> <<>>, subscription |-> "undefined", subscriber |-> "none",
     error |-> FALSE, emits |-> 0, first |-> <<>>]

\* the body of the callback passed to subscribe, applied to one emission; a
\* callback that throws closes its subscriber
OnStatus(c, order) ==
    LET c1 == [c EXCEPT !.order = [status |-> order.status, fromAmount |-> c.fromAmount],
                        !.lastOrder = <<order>>]
        c2 == IF ~IsFinal(order) THEN c1
              ELSE IF c1.subscription = "undefined"
                   THEN [c1 EXCEPT !.error = TRUE, !.subscriber = "closed"]
                   ELSE [c1 EXCEPT !.subscription = "closed", !.subscriber = "closed"]
    IN  [c2 EXCEPT !.emits = @ + 1,
                   !.first = IF IsFinal(order) /\ c.first = <<>>
                             THEN <<[order |-> c2.order, lastOrder |-> c2.lastOrder]>>
                             ELSE @]

NgOnInit ==
    /\ cmp.phase = "constructed"
    /\ cmp' = [cmp EXCEPT !.phase = "subscribing", !.fromAmount = cmp.order.fromAmount,
                          !.subscriber = "open"]
    /\ UNCHANGED <<heap, refs, call, pre, hist, nops, pc, writes, obs>>

\* the observable emits while subscribe() is still running
EmitDuringSubscribe(order) ==
    /\ cmp.phase = "subscribing" /\ cmp.subscriber = "open"
    /\ cmp.emits < MaxEmits
    /\ cmp' = OnStatus(cmp, order)
    /\ UNCHANGED <<heap, refs, call, pre, hist, nops, pc, writes, obs>>

\* subscribe() returns and its result is assigned to this.subscription
SubscribeReturns ==
    /\ cmp.phase = "subscribing"
    /\ cmp' = [cmp EXCEPT !.phase = "subscribed", !.subscription = cmp.subscriber]
    /\ UNCHANGED <<heap, refs, call, pre, hist, nops, pc, writes, obs>>

\* subscribe() rethrows the callback's error and ngOnInit ends without the
\* assignment
SubscribeThrows ==
    /\ cmp.phase = "subscribing" /\ cmp.error
    /\ cmp' = [cmp EXCEPT !.phase = "threw"]
    /\ UNCHANGED <<heap, refs, call, pre, hist, nops, pc, writes, obs>>

\* the observable emits after ngOnInit
Emit(order) ==
    /\ cmp.phase = "subscribed" /\ cmp.subscriber = "open"
    /\ cmp.emits < MaxEmits
    /\ cmp' = OnStatus(cmp, order)
    /\ UNCHANGED <<heap, refs, call, pre, hist, nops, pc, writes, obs>>

\* an emission that finds the subscriber closed is not delivered
EmitIgnored(order) ==
    /\ cmp.phase \in {"subscribing", "subscribed", "threw"} /\ cmp.subscriber = "closed"
    /\ cmp.emits < MaxEmits
    /\ cmp' = [cmp EXCEPT !.emits = @ + 1]
    /\ UNCHANGED <<heap, refs, call, pre, hist, nops, pc, writes, obs>>

InitComponent ==
    /\ heap = <<EmptyMeta>>
    /\ refs = <<1>>
    /\ call = [op |-> "make", recv |-> 1, args |-> <<>>, ret |-> <<>>, panic |-> FALSE]
    /\ pre = <<EmptyMeta>>
    /\ hist = <<{}>>
    /\ nops = 0
    /\ pc = Idle
    /\ writes = <<>>
    /\ obs = NotRead
    /\ \E order \in Orders : cmp = NewComponent(order)

NextComponent ==
    \/ NgOnInit
    \/ \E order \in Orders : EmitDuringSubscribe(order)
    \/ SubscribeReturns
    \/ SubscribeThrows
    \/ \E order \in Orders : Emit(order)
    \/ \E order \in Orders : EmitIgnored(order)

SpecComponent == InitComponent /\ [][NextComponent]_vars

----------------------------------------------------------------------------
(* Properties *)

True == [val |-> TRUE, panic |-> FALSE]
False == [val |-> FALSE, panic |-> FALSE]
Absent == [val |-> Zero, ok |-> FALSE, panic |-> FALSE]
Present(x) == [val |-> x, ok |-> TRUE, panic |-> FALSE]

\* the variables that existed when the last call started
PreHandles == { i \in Handles : refs[i] \in 1..Len(pre) }

SeedKeys == {MetaSeed, MetaLastSeed, MetaSeedPassphrase}

\* m1 and m2 agree on key k: present in both with one value, or absent in both
SameAt(m1, m2, k) == Has(m1, k) = Has(m2, k) /\ Get(m1, k) = Get(m2, k)

\* C1: right after SetEncrypted(A,B), from any state, IsEncrypted() is true,
\* CryptoType() = A and Secrets() = B; right after SetDecrypted() (in
\* particular one that follows a SetEncrypted), IsEncrypted() is false and
\* CryptoType() and Secrets() are "".
C1_EncryptionRoundTrip ==
    /\ call.op = "SetEncrypted" =>
         /\ IsEncrypted(Rec(call.recv)) = True
         /\ CryptoType(Rec(call.recv)) = call.args[1]
         /\ Secrets(Rec(call.recv)) = call.args[2]
    /\ call.op = "SetDecrypted" =>
         /\ IsEncrypted(Rec(call.recv)) = False
         /\ CryptoType(Rec(call.recv)) = EmptyString
         /\ Secrets(Rec(call.recv)) = EmptyString

\* SetDecrypted() has just been applied to a record that SetEncrypted(A,B)
\* had left encrypted with a non-empty A and B.
C1_Witness ==
    /\ call.op = "SetDecrypted"
    /\ "SetEncrypted" \in hist[refs[call.recv]]
    /\ IsEncrypted(PreRec(call.recv)) = True
    /\ CryptoType(PreRec(call.recv)) # EmptyString
    /\ Secrets(PreRec(call.recv)) # EmptyString
    /\ IsEncrypted(Rec(call.recv)) = False

\* C2 as stated: in every reachable state, whatever the arguments were,
\* IsEncrypted() is true iff CryptoType() and Secrets() are both non-empty.
C2_EncryptedIffBothNonEmpty ==
    \A i \in Handles :
        IsEncrypted(Rec(i)) = True
            <=> (CryptoType(Rec(i)) # EmptyString /\ Secrets(Rec(i)) # EmptyString)

\* C2 amended: on every record to which SetEncrypted was only ever applied
\* with a non-empty algorithm and a non-empty blob, IsEncrypted() is true iff
\* CryptoType() and Secrets() are both non-empty.
C2_EncryptedIffBothNonEmpty_NonEmptyArgs ==
    \A i \in Handles :
        EmptyCryptoArg \notin hist[refs[i]] =>
            (IsEncrypted(Rec(i)) = True
                <=> (CryptoType(Rec(i)) # EmptyString /\ Secrets(Rec(i)) # EmptyString))

\* A record encrypted with non-empty arguments, after a further call.
C2_Witness ==
    \E i \in Handles :
        /\ EmptyCryptoArg \notin hist[refs[i]]
        /\ "SetEncrypted" \in hist[refs[i]]
        /\ call.op # "SetEncrypted"
        /\ IsEncrypted(Rec(i)) = True
        /\ CryptoType(Rec(i)) # EmptyString
        /\ Secrets(Rec(i)) # EmptyString

\* C3 as stated: in every reachable state, whatever the arguments were,
\* IsEncrypted() is false iff CryptoType() and Secrets() are both empty.
C3_DecryptedIffBothEmpty ==
    \A i \in Handles :
        IsEncrypted(Rec(i)) = False
            <=> (CryptoType(Rec(i)) = EmptyString /\ Secrets(Rec(i)) = EmptyString)

\* C3 amended: on every record to which SetEncrypted was never applied with
\* both the algorithm and the blob empty, IsEncrypted() is false iff
\* CryptoType() and Secrets() are both empty.
C3_DecryptedIffBothEmpty_NotBothEmptyArgs ==
    \A i \in Handles :
        BothCryptoArgsEmpty \notin hist[refs[i]] =>
            (IsEncrypted(Rec(i)) = False
                <=> (CryptoType(Rec(i)) = EmptyString /\ Secrets(Rec(i)) = EmptyString))

\* A record encrypted with one empty and one non-empty argument, never with
\* two empty ones, and then decrypted.
C3_Witness ==
    \E i \in Handles :
        /\ EmptyCryptoArg \in hist[refs[i]]
        /\ BothCryptoArgsEmpty \notin hist[refs[i]]
        /\ {"SetEncrypted", "SetDecrypted"} \subseteq hist[refs[i]]
        /\ Has(Rec(i), MetaEncrypted)
        /\ IsEncrypted(Rec(i)) = False
        /\ CryptoType(Rec(i)) = EmptyString
        /\ Secrets(Rec(i)) = EmptyString

\* C4 as stated: in every reachable state in which IsEncrypted() is true,
\* Seed(), LastSeed() and SeedPassphrase() are all empty.
C4_EncryptedHoldsNoPlaintext ==
    \A i \in Handles :
        IsEncrypted(Rec(i)) = True =>
            /\ Seed(Rec(i)) = EmptyString
            /\ LastSeed(Rec(i)) = EmptyString
            /\ SeedPassphrase(Rec(i)) = EmptyString

\* C4 amended: the same, on every record whose callers always called
\* SetEncrypted with the three plaintext fields empty (erased) and never
\* wrote a non-empty seed, last seed or passphrase while it was encrypted.
C4_EncryptedHoldsNoPlaintext_CallerErases ==
    \A i \in Handles :
        (EncryptUnerased \notin hist[refs[i]] /\ PlaintextWhileEncrypted \notin hist[refs[i]]) =>
            (IsEncrypted(Rec(i)) = True =>
                /\ Seed(Rec(i)) = EmptyString
                /\ LastSeed(Rec(i)) = EmptyString
                /\ SeedPassphrase(Rec(i)) = EmptyString)

\* A record that held a seed, was erased and then encrypted.
C4_Witness ==
    /\ call.op = "SetEncrypted"
    /\ {"SetSeed", "EraseSeeds"} \subseteq hist[refs[call.recv]]
    /\ EncryptUnerased \notin hist[refs[call.recv]]
    /\ Has(Rec(call.recv), MetaSeed)
    /\ IsEncrypted(Rec(call.recv)) = True

\* C5: right after R.Clone() the clone has the keys and values R had at the
\* call (an absent bip44Coin stays absent) and R is unchanged; afterwards a
\* mutating call on either record leaves every other record unchanged.
C5_CloneIndependence ==
    /\ call.op = "Clone" =>
         /\ Rec(call.ret[1]) = PreRec(call.recv)
         /\ DOMAIN Rec(call.ret[1]) = DOMAIN PreRec(call.recv)
         /\ Bip44Coin(Rec(call.ret[1])) = Bip44Coin(PreRec(call.recv))
         /\ \A j \in PreHandles : Rec(j) = PreRec(j)
    /\ call.op \notin {"Clone", "make"} =>
         \A j \in Handles \ {call.recv} : Rec(j) = PreRec(j)

\* A populated record was cloned and the clone was then changed: the two now
\* differ, and the original is as it was.
C5_Witness ==
    /\ Len(refs) = 2
    /\ call.op \notin {"Clone", "make"}
    /\ call.recv = 2
    /\ PreRec(1) # EmptyMeta
    /\ PreRec(2) = PreRec(1)
    /\ Rec(2) # Rec(1)
    /\ Rec(1) = PreRec(1)

\* C6: right after EraseSeeds(), Seed(), LastSeed() and SeedPassphrase()
\* return "", and a second EraseSeeds() would leave the record exactly as it
\* is.
C6_EraseIdempotent ==
    call.op = "EraseSeeds" =>
        /\ Seed(Rec(call.recv)) = EmptyString
        /\ LastSeed(Rec(call.recv)) = EmptyString
        /\ SeedPassphrase(Rec(call.recv)) = EmptyString
        /\ EraseSeeds(Rec(call.recv)) = Rec(call.recv)

\* EraseSeeds() has just erased a non-empty field.
C6_Witness ==
    /\ call.op = "EraseSeeds"
    /\ HoldsPlaintext(PreRec(call.recv))
    /\ ~HoldsPlaintext(Rec(call.recv))

\* C7: EraseSeeds() leaves every key other than seed, lastSeed and
\* seedPassphrase as it was: present with the same value, or absent.
C7_EraseSeedsFrame ==
    call.op = "EraseSeeds" =>
        /\ \A k \in Keys \ SeedKeys : SameAt(Rec(call.recv), PreRec(call.recv), k)
        /\ DOMAIN Rec(call.recv) \ SeedKeys = DOMAIN PreRec(call.recv) \ SeedKeys
        /\ IsEncrypted(Rec(call.recv)) = IsEncrypted(PreRec(call.recv))
        /\ Bip44Coin(Rec(call.recv)) = Bip44Coin(PreRec(call.recv))

\* EraseSeeds() has just been applied to an encrypted record that held a
\* seed and no bip44Coin.
C7_Witness ==
    /\ call.op = "EraseSeeds"
    /\ Seed(PreRec(call.recv)) # EmptyString
    /\ Secrets(Rec(call.recv)) # EmptyString
    /\ CryptoType(Rec(call.recv)) # EmptyString
    /\ IsEncrypted(Rec(call.recv)) = True
    /\ ~Has(Rec(call.recv), MetaBip44Coin)

\* The letters outside A-Z and a-z that Unicode's simple case folding puts
\* with another rune of the model: KELVIN SIGN with K and k, long s with S
\* and s, capital with small e acute.  Capital I with dot above folds to
\* nothing but itself.
FoldOrbits ==
    { {"K", "k", "U+212A"}, {"S", "s", "U+017F"}, {"U+00C9", "U+00E9"} }

\* two runes are the same letter, whatever their case
EqualFoldChar(a, b) ==
    \/ a = b
    \/ \E i \in 1..26 : {a, b} = {UpperChars[i], LowerChars[i]}
    \/ \E o \in FoldOrbits : {a, b} \subseteq o

\* s and t are equal when compared case-insensitively (simple case folding,
\* rune by rune)
EqualFold(s, t) ==
    /\ Len(s) = Len(t)
    /\ \A i \in 1..Len(s) : EqualFoldChar(s[i], t[i])

\* C8: ResolveCoinType(s) returns (CoinTypeSkycoin, nil) exactly when s is,
\* case-insensitively, "sky" or "skycoin"; (CoinTypeBitcoin, nil) exactly
\* when s is, case-insensitively, "btc" or "bitcoin"; and otherwise the
\* invalid-coin-type error with no valid CoinType.
C8_ResolveCoinType ==
    call.op = "ResolveCoinType" =>
        LET s == call.args[1]
            sky == EqualFold(s, <<"s","k","y">>) \/ EqualFold(s, <<"s","k","y","c","o","i","n">>)
            btc == EqualFold(s, <<"b","t","c">>) \/ EqualFold(s, <<"b","i","t","c","o","i","n">>)
        IN  /\ call.ret = <<CoinTypeSkycoin, ErrNone>> <=> sky
            /\ call.ret = <<CoinTypeBitcoin, ErrNone>> <=> btc
            /\ (~sky /\ ~btc) =>
                 /\ call.ret[2] = ErrInvalidCoinType
                 /\ call.ret[1] \notin {CoinTypeSkycoin, CoinTypeBitcoin}

\* C9: Bip44Coin() reports absence on every record on which (or on whose
\* clone source) SetBip44Coin was never called; right after SetBip44Coin(x)
\* it reports presence with value x, also for x = 0.
C9_Bip44Presence ==
    /\ \A i \in Handles :
         "SetBip44Coin" \notin hist[refs[i]] => Bip44Coin(Rec(i)) = Absent
    /\ call.op = "SetBip44Coin" =>
         /\ Bip44Coin(Rec(call.recv)) = Present(call.args[1])
         /\ Bip44Coin(Rec(call.recv)) # Absent

\* SetBip44Coin(0) has just been applied to one of two records; the other
\* never had it set and reports absence.
C9_Witness ==
    /\ Len(refs) = 2
    /\ call.op = "SetBip44Coin"
    /\ call.args[1] = Zero
    /\ Bip44Coin(Rec(call.recv)) = Present(Zero)
    /\ \E j \in Handles \ {call.recv} :
         /\ hist[refs[j]] # {}
         /\ Bip44Coin(Rec(j)) = Absent

EncryptionState(m) == <<IsEncrypted(m), CryptoType(m), Secrets(m)>>

\* C10: a fresh record is Decrypted; a call other than SetEncrypted and
\* SetDecrypted leaves IsEncrypted(), CryptoType() and Secrets() of every
\* record as they were (a clone starts with those of its source); so
\* IsEncrypted() turns true only by SetEncrypted and false only by
\* SetDecrypted.
C10_OnlyEncryptionOpsChangeEncryption ==
    /\ call.op = "make" => IsEncrypted(Rec(call.recv)) = False
    /\ call.op \notin {"SetEncrypted", "SetDecrypted", "make"} =>
         /\ \A j \in PreHandles : EncryptionState(Rec(j)) = EncryptionState(PreRec(j))
         /\ call.op = "Clone" =>
              EncryptionState(Rec(call.ret[1])) = EncryptionState(PreRec(call.recv))
    /\ \A j \in PreHandles :
         /\ (IsEncrypted(PreRec(j)) = False /\ IsEncrypted(Rec(j)) = True)
              => (call.op = "SetEncrypted" /\ call.recv = j)
         /\ (IsEncrypted(PreRec(j)) = True /\ IsEncrypted(Rec(j)) = False)
              => (call.op = "SetDecrypted" /\ call.recv = j)

\* A seed setter has just been applied to an encrypted record.
C10_Witness ==
    /\ call.op = "SetLastSeed"
    /\ call.args[1] # EmptyString
    /\ IsEncrypted(PreRec(call.recv)) = True
    /\ IsEncrypted(Rec(call.recv)) = True
    /\ Secrets(Rec(call.recv)) # EmptyString

\* C11: IsEncrypted() returns false, and does not panic, on a fresh record
\* and on every record on which (or on whose clone source) neither
\* SetEncrypted nor SetDecrypted has been called, whatever else was called.
C11_DefaultNotEncrypted ==
    /\ \A i \in Handles :
         hist[refs[i]] \cap {"SetEncrypted", "SetDecrypted"} = {} =>
             IsEncrypted(Rec(i)) = False
    /\ (/\ call.op = "IsEncrypted"
        /\ hist[refs[call.recv]] \cap {"SetEncrypted", "SetDecrypted"} = {}) =>
            (call.ret = <<FALSE>> /\ ~call.panic)

\* IsEncrypted() has returned false on a record that other setters have
\* written.
C11_Witness ==
    /\ call.op = "IsEncrypted"
    /\ {"SetSeed", "SetCoin"} \subseteq hist[refs[call.recv]]
    /\ hist[refs[call.recv]] \cap {"SetEncrypted", "SetDecrypted"} = {}
    /\ call.ret = <<FALSE>>
    /\ ~call.panic

\* the texts strconv.ParseBool accepts
BoolTexts ==
    { <<"1">>, <<"t">>, <<"T">>, <<"T","R","U","E">>, <<"t","r","u","e">>, <<"T","r","u","e">>,
      <<"0">>, <<"f">>, <<"F">>, <<"F","A","L","S","E">>, <<"f","a","l","s","e">>, <<"F","a","l","s","e">> }

RECURSIVE StripZeros(_)
StripZeros(s) == IF Len(s) > 1 /\ Head(s) = "0" THEN StripZeros(Tail(s)) ELSE s

\* s is the decimal text of an integer in 0 .. 2^32 - 1
IsUint32Text(s) ==
    /\ Len(s) >= 1
    /\ \A i \in 1..Len(s) : IsDigitChar(s[i])
    /\ LET d == [i \in 1..Len(StripZeros(s)) |-> DigitOf(StripZeros(s)[i])]
       IN  ~Less(MaxUint32, d)

\* C12: when the encrypted key holds a text that is no boolean, IsEncrypted()
\* panics and returns nothing; when the bip44Coin key holds a text that is
\* no 32-bit unsigned decimal, Bip44Coin() panics and returns nothing.
C12_MalformedValuePanics ==
    /\ (/\ call.op = "IsEncrypted"
        /\ Has(Rec(call.recv), MetaEncrypted)
        /\ Rec(call.recv)[MetaEncrypted] \notin BoolTexts) =>
            (call.panic /\ call.ret = <<>>)
    /\ (/\ call.op = "Bip44Coin"
        /\ Has(Rec(call.recv), MetaBip44Coin)
        /\ ~IsUint32Text(Rec(call.recv)[MetaBip44Coin])) =>
            (call.panic /\ call.ret = <<>>)

\* IsEncrypted() has panicked on "yes" in a record whose bip44Coin holds
\* 4294967296.
C12_Witness ==
    /\ call.op = "IsEncrypted"
    /\ call.panic
    /\ Get(Rec(call.recv), MetaEncrypted) = <<"y","e","s">>
    /\ Get(Rec(call.recv), MetaBip44Coin) = <<"4","2","9","4","9","6","7","2","9","6">>
    /\ Bip44Coin(Rec(call.recv)).panic

\* C13 as stated: in every state Coin() is CoinTypeSkycoin or
\* CoinTypeBitcoin, and the coin key never holds anything else.
C13_CoinIsEnumerated ==
    \A i \in Handles :
        /\ Coin(Rec(i)) \in {CoinTypeSkycoin, CoinTypeBitcoin}
        /\ Has(Rec(i), MetaCoin) => Rec(i)[MetaCoin] \in {CoinTypeSkycoin, CoinTypeBitcoin}

\* C13 amended: on every record on which SetCoin has been called, and only
\* ever with CoinTypeSkycoin or CoinTypeBitcoin, Coin() is one of these two.
C13_CoinIsEnumerated_KnownArgs ==
    \A i \in Handles :
        ("SetCoin" \in hist[refs[i]] /\ UnknownCoinArg \notin hist[refs[i]]) =>
            Coin(Rec(i)) \in {CoinTypeSkycoin, CoinTypeBitcoin}

\* SetCoin(CoinTypeSkycoin) and then SetCoin(CoinTypeBitcoin) were called.
C13_Witness ==
    /\ call.op = "SetCoin"
    /\ call.args[1] = CoinTypeBitcoin
    /\ Coin(PreRec(call.recv)) = CoinTypeSkycoin
    /\ UnknownCoinArg \notin hist[refs[call.recv]]
    /\ Coin(Rec(call.recv)) = CoinTypeBitcoin

\* the stores a call must make, in order, as <<key, value>>
ExpectedWrites(op, args) ==
    IF op = "SetEncrypted"
    THEN << <<MetaCryptoType, args[1]>>, <<MetaSecrets, args[2]>>,
            <<MetaEncrypted, <<"t","r","u","e">> >> >>
    ELSE << <<MetaEncrypted, <<"f","a","l","s","e">> >>, <<MetaSecrets, EmptyString>>,
            <<MetaCryptoType, EmptyString>> >>

\* C14: SetEncrypted(A,B) stores cryptoType, then secrets, then
\* encrypted = true; SetDecrypted() stores encrypted = false, then an empty
\* secrets, then an empty cryptoType.  At every point of the call the stores
\* made so far are the first ones of that order, and at its return the record
\* is what the call taken whole leaves.
C14_WriteOrder ==
    /\ InProgress =>
         writes = SubSeq(ExpectedWrites(pc.op, pc.args), 1, pc.step - 1)
    /\ (~InProgress /\ call.op \in {"SetEncrypted", "SetDecrypted"}) =>
         /\ writes = ExpectedWrites(call.op, call.args)
         /\ Rec(call.recv) =
              IF call.op = "SetEncrypted"
              THEN SetEncrypted(PreRec(call.recv), call.args[1], call.args[2])
              ELSE SetDecrypted(PreRec(call.recv))

\* SetDecrypted() has returned on a record that SetEncrypted had encrypted
\* with a non-empty algorithm and blob.
C14_Witness ==
    /\ ~InProgress
    /\ call.op = "SetDecrypted"
    /\ Len(writes) = 3
    /\ IsEncrypted(PreRec(call.recv)) = True
    /\ CryptoType(PreRec(call.recv)) # EmptyString
    /\ Secrets(PreRec(call.recv)) # EmptyString

EncryptionKeys == {MetaEncrypted, MetaCryptoType, MetaSecrets}

\* C15: SetEncrypted and SetDecrypted leave every key other than encrypted,
\* cryptoType and secrets as it was: Seed(), LastSeed() and SeedPassphrase()
\* return what they returned before, and no other record changes.
C15_EncryptionOpsFrame ==
    call.op \in {"SetEncrypted", "SetDecrypted"} =>
        /\ \A k \in Keys \ EncryptionKeys : SameAt(Rec(call.recv), PreRec(call.recv), k)
        /\ Seed(Rec(call.recv)) = Seed(PreRec(call.recv))
        /\ LastSeed(Rec(call.recv)) = LastSeed(PreRec(call.recv))
        /\ SeedPassphrase(Rec(call.recv)) = SeedPassphrase(PreRec(call.recv))
        /\ \A j \in Handles \ {call.recv} : Rec(j) = PreRec(j)

\* SetEncrypted has just been applied to a record holding a seed and a
\* passphrase, which it still holds.
C15_Witness ==
    /\ call.op = "SetEncrypted"
    /\ Seed(Rec(call.recv)) # EmptyString
    /\ SeedPassphrase(Rec(call.recv)) # EmptyString
    /\ IsEncrypted(Rec(call.recv)) = True

\* the key each setter of a setter/getter pair stores under
PairKey ==
    [op \in {"SetVersion", "SetFilename", "SetLabel", "SetSeed", "SetLastSeed",
             "SetSeedPassphrase", "SetCoin", "SetXPub", "SetTimestamp", "SetBip44Coin"} |->
        CASE op = "SetVersion" -> MetaVersion
          [] op = "SetFilename" -> MetaFilename
          [] op = "SetLabel" -> MetaLabel
          [] op = "SetSeed" -> MetaSeed
          [] op = "SetLastSeed" -> MetaLastSeed
          [] op = "SetSeedPassphrase" -> MetaSeedPassphrase
          [] op = "SetCoin" -> MetaCoin
          [] op = "SetXPub" -> MetaXPub
          [] op = "SetTimestamp" -> MetaTimestamp
          [] op = "SetBip44Coin" -> MetaBip44Coin]

\* the getter paired with setter op returns v on m
ReadsBack(op, m, v) ==
    CASE op = "SetVersion" -> Version(m) = v
      [] op = "SetFilename" -> Filename(m) = v
      [] op = "SetLabel" -> Label(m) = v
      [] op = "SetSeed" -> Seed(m) = v
      [] op = "SetLastSeed" -> LastSeed(m) = v
      [] op = "SetSeedPassphrase" -> SeedPassphrase(m) = v
      [] op = "SetCoin" -> Coin(m) = v
      [] op = "SetXPub" -> XPub(m) = v
      [] op = "SetTimestamp" -> Timestamp(m) = v
      [] op = "SetBip44Coin" -> Bip44Coin(m) = Present(v)

\* C16: right after Set_k(v) the paired read returns v, and every key other
\* than k, of that record and of every other, is as it was before (SetCoin
\* leaves bip44Coin and its presence alone).
C16_SetThenGet ==
    call.op \in DOMAIN PairKey =>
        /\ ReadsBack(call.op, Rec(call.recv), call.args[1])
        /\ \A k \in Keys \ {PairKey[call.op]} : SameAt(Rec(call.recv), PreRec(call.recv), k)
        /\ Bip44Coin(Rec(call.recv)) = Bip44Coin(PreRec(call.recv)) \/ call.op = "SetBip44Coin"
        /\ \A j \in Handles \ {call.recv} : Rec(j) = PreRec(j)

\* SetCoin has just replaced one coin by another on a record holding a
\* bip44Coin.
C16_Witness ==
    /\ call.op = "SetCoin"
    /\ Coin(PreRec(call.recv)) = CoinTypeSkycoin
    /\ Coin(Rec(call.recv)) = CoinTypeBitcoin
    /\ Bip44Coin(Rec(call.recv)).ok

\* s is the decimal text of an integer in -2^63 .. 2^63 - 1, with an optional
\* sign
IsInt64Text(s) ==
    /\ Len(s) >= 1
    /\ LET body == IF Head(s) \in {"+", "-"} THEN Tail(s) ELSE s
       IN  /\ Len(body) >= 1
           /\ \A i \in 1..Len(body) : IsDigitChar(body[i])
           /\ LET d == [i \in 1..Len(StripZeros(body)) |-> DigitOf(StripZeros(body)[i])]
              IN  IF Head(s) = "-" THEN ~Less(Cutoff64, d) ELSE ~Less(MaxInt64, d)

\* C17: Timestamp() never panics; it returns 0 when the tm key is absent or
\* holds a text that is no signed 64-bit decimal integer; right after
\* SetTimestamp(t) it returns t.
C17_TimestampLenient ==
    /\ call.op = "Timestamp" =>
         /\ ~call.panic
         /\ (\/ ~Has(Rec(call.recv), MetaTimestamp)
             \/ ~IsInt64Text(Get(Rec(call.recv), MetaTimestamp))) =>
                call.ret = <<ZeroInt64>>
    /\ call.op = "SetTimestamp" => Timestamp(Rec(call.recv)) = call.args[1]

\* C18: a record built from the empty record by the typed public operations
\* alone never makes IsEncrypted() or Bip44Coin() panic: no call has panicked
\* and on every live record both reads would return normally.
C18_TypedOpsNeverPanic ==
    /\ ~call.panic
    /\ \A i \in Handles :
         /\ ~IsEncrypted(Rec(i)).panic
         /\ ~Bip44Coin(Rec(i)).panic

\* Both parsed keys were stored by typed operations and a read of one of them
\* has returned normally
C18_Witness ==
    /\ call.op \in {"IsEncrypted", "Bip44Coin"}
    /\ ~call.panic
    /\ Has(Rec(call.recv), MetaEncrypted)
    /\ Has(Rec(call.recv), MetaBip44Coin)
    /\ {"SetBip44Coin"} \subseteq hist[refs[call.recv]]
    /\ hist[refs[call.recv]] \cap {"SetEncrypted", "SetDecrypted"} # {}

\* The call in progress is one the statement is about: SetEncrypted with two
\* non-empty arguments on a record that was Decrypted with empty cryptoType
\* and secrets, or SetDecrypted on a record that was Encrypted.
C19_Case ==
    /\ InProgress
    /\ LET m == PreRec(pc.recv)
       IN  \/ /\ pc.op = "SetEncrypted"
              /\ pc.args[1] # EmptyString /\ pc.args[2] # EmptyString
              /\ ~IsEncrypted(m).val
              /\ CryptoType(m) = EmptyString /\ Secrets(m) = EmptyString
           \/ /\ pc.op = "SetDecrypted"
              /\ IsEncrypted(m).val
              /\ CryptoType(m) # EmptyString /\ Secrets(m) # EmptyString

\* what the second goroutine has read so far: IsEncrypted() = true together
\* with an empty CryptoType() or an empty Secrets()
SeesEncryptedWithoutSecrets ==
    /\ ~obs.fatal
    /\ "IsEncrypted" \in obs.seen /\ obs.enc.val
    /\ \/ "CryptoType" \in obs.seen /\ obs.ct = EmptyString
       \/ "Secrets" \in obs.seen /\ obs.secrets = EmptyString

\* C19: while the writes of SetEncrypted(A, B) (A and B non-empty, on a record
\* that was Decrypted with empty cryptoType and secrets) or of SetDecrypted()
\* (on a record that was Encrypted) are in progress, at every step (before the
\* first write, between two writes, after the last) the record does not hold
\* encrypted = true with an empty cryptoType or empty secrets, and an observer
\* that reads IsEncrypted(), CryptoType() and Secrets() at that step does not
\* see that combination.
C19_IntermediateStepsConsistent ==
    C19_Case =>
        /\ ~(/\ IsEncrypted(Rec(pc.recv)).val
             /\ \/ CryptoType(Rec(pc.recv)) = EmptyString
                \/ Secrets(Rec(pc.recv)) = EmptyString)
        /\ obs.atOnce => ~SeesEncryptedWithoutSecrets

\* SetDecrypted has cleared the flag and not yet the secrets, and the observer
\* made its three reads at that point
C19_Witness ==
    /\ C19_Case
    /\ pc.op = "SetDecrypted" /\ pc.step = 2
    /\ obs.seen = {"IsEncrypted", "CryptoType", "Secrets"}
    /\ obs.atOnce /\ ~obs.fatal
    /\ ~obs.enc.val /\ obs.secrets # EmptyString

\* C20: the first emission whose status is 'complete' or 'error' leaves the
\* subscriber closed and no TypeError has been raised, also when it arrives
\* during subscribe(); after it this.order and exchangeService.lastOrder stay
\* as that emission left them; this.order always has ngOnInit's fromAmount.
C20_FinalStatusUnsubscribes ==
    /\ ~cmp.error
    /\ cmp.first # <<>> =>
         /\ cmp.subscriber = "closed"
         /\ cmp.order = cmp.first[1].order
         /\ cmp.lastOrder = cmp.first[1].lastOrder
    /\ cmp.order.fromAmount = cmp.fromAmount

=============================================================================
